---- MODULE Spec2Model ----
(***************************************************************************)
(* Model of the retrieval-augmented inference proxy, in its two            *)
(* implementations: services/rag-wrapper/rag_api.py ("rag_api") and        *)
(* services/rag-wrapper/injector.py ("injector").                          *)
(*                                                                         *)
(* A text is a sequence of atoms; an atom is one character, or one fixed   *)
(* piece of a template of the source (a header, a delimiter).  A JSON      *)
(* object is a function from its keys to its values, so that a missing     *)
(* key is a key outside DOMAIN.                                            *)
(***************************************************************************)
EXTENDS Integers, Sequences, FiniteSets, TLC

\* ------------------------------------------------------------------ bounds
NumReq == 2       \* request slots
MaxMsgs == 3      \* messages of a chat request
MaxChunks == 2    \* chunks of an upstream body
MaxLen == 3       \* characters of a prompt, where prompts are enumerated
MaxSources == 3   \* sources of the data indexer's configuration
MaxPasses == 2    \* passes of the data indexer's scheduler loop

\* ------------------------------------------------------- program constants
SEARCH_LIMIT == 2        \* "limit": 2 of the vector search
CHUNK_SIZE == 1024       \* iter_content(chunk_size=1024)

None == [none |-> TRUE]  \* Python's None, and a step not taken yet

\* a text or list that may be None
Some(x) == [some |-> TRUE, val |-> x]
Nothing == [some |-> FALSE, val |-> <<>>]

\* ------------------------------------------------------------------- texts
RECURSIVE Concat(_)
\* "".join(parts)
Concat(parts) ==
    IF parts = <<>> THEN <<>> ELSE Head(parts) \o Concat(Tail(parts))

RECURSIVE Join(_, _)
\* sep.join(parts)
Join(parts, sep) ==
    IF parts = <<>> THEN <<>>
    ELSE IF Len(parts) = 1 THEN parts[1]
    ELSE parts[1] \o sep \o Join(Tail(parts), sep)

\* sub in s
Contains(sub, s) ==
    \E i \in 0..(Len(s) - Len(sub)) : SubSeq(s, i + 1, i + Len(sub)) = sub

\* s.endswith(suf)
EndsWith(s, suf) ==
    /\ Len(suf) <= Len(s)
    /\ SubSeq(s, Len(s) - Len(suf) + 1, Len(s)) = suf

\* str.lower() of one character
LowerChar(c) ==
    CASE c = "R" -> "r"
      [] c = "S" -> "s"
      [] c = "A^" -> "a^"     \* U+00C2 -> U+00E2; "?!" stands for U+00BF
      [] OTHER -> c

\* str.lower()
Lower(s) == [i \in 1..Len(s) |-> LowerChar(s[i])]

\* unicodedata.normalize('NFD', c) of one character; "^" and "'" stand
\* for the combining circumflex U+0302 and the combining acute U+0301
NFDChar(c) ==
    CASE c = "a^" -> <<"a", "^">>
      [] c = "A^" -> <<"A", "^">>
      [] c = "a'" -> <<"a", "'">>
      [] OTHER -> <<c>>

\* unicodedata.category(c) = 'Mn'
IsMn(c) == c \in {"^", "'"}

RECURSIVE RemoveSub(_, _)
\* s.replace(sub, ""), sub non-empty: leftmost non-overlapping occurrences
RemoveSub(s, sub) ==
    IF Len(s) < Len(sub) THEN s
    ELSE IF SubSeq(s, 1, Len(sub)) = sub
         THEN RemoveSub(SubSeq(s, Len(sub) + 1, Len(s)), sub)
         ELSE <<Head(s)>> \o RemoveSub(Tail(s), sub)

\* Normalize reduced to its two replace calls, without lower() and
\* without the removal of accents
NormalizeReplaceOnly(q) == RemoveSub(RemoveSub(q, <<"A^", "?!">>), <<"?">>)

\* the query text sent to the embedding service by rag_api
Normalize(q) ==
    LET replaced == Lower(RemoveSub(RemoveSub(q, <<"A^", "?!">>), <<"?">>))
        nfd == Concat([i \in 1..Len(replaced) |-> NFDChar(replaced[i])])
    IN  SelectSeq(nfd, LAMBDA c : ~IsMn(c))

\* ------------------------------------------------------------ JSON objects
\* d.get(k, default)
Get(d, k, default) == IF k \in DOMAIN d THEN d[k] ELSE default

\* d[k] = v
SetKey(d, k, v) == [x \in (DOMAIN d) \cup {k} |-> IF x = k THEN v ELSE d[x]]

\* the object o without the keys outside keys
Restrict(o, keys) == [k \in keys |-> o[k]]

\* Python truthiness of a text or list that may be None
Truthy(x) == x.some /\ x.val # <<>>

\* ------------------------------------------------------------------ inputs
Reqs == 1..NumReq
Impls == {"rag_api", "injector"}
Routes == {"generate", "chat", "tags", "health"}
Methods == {"GET", "POST", "PUT", "DELETE"}

P_rain == <<"R", "a", "i", "n", "?">>
P_sort == <<"S", "o", "r", "t">>
Prompts == {<<>>, P_rain, P_sort}

\* the bodies of POST /api/generate: model and options always present,
\* prompt and stream present or not
GenRequests ==
    { Restrict(full, {"model", "options"} \cup opt) :
        full \in [model : {"m"}, options : {"o"}, prompt : Prompts,
                  stream : BOOLEAN],
        opt \in SUBSET {"prompt", "stream"} }

\* one element of "messages": an object with or without content, or a
\* JSON value that is not an object
Messages ==
    { [role |-> "user", content |-> P_rain],
      [role |-> "user", content |-> <<>>],
      [role |-> "user"],
      [role |-> "assistant", content |-> P_sort],
      [notdict |-> TRUE] }

IsDict(m) == "notdict" \notin DOMAIN m

MessageLists == UNION { [1..n -> Messages] : n \in 0..MaxMsgs }

\* the bodies of POST /api/chat
ChatRequests ==
    { Restrict(full, {"model"} \cup opt) :
        full \in [model : {"m"}, messages : MessageLists, stream : BOOLEAN],
        opt \in SUBSET {"messages", "stream"} }

\* the bodies of the passthrough routes
OtherRequests == { [name |-> "m"] }

\* the paths under /api/ that have no handler of their own: the model
\* listing (GET /api/tags) and the model removal (DELETE /api/delete, which
\* names the model in its body)
PassPaths == {"tags", "delete"}

Vectors == {"v1", "v2"}

\* what the embedding service does with one call
EmbedOutcomes ==
    [kind : {"ok"}, vec : Vectors]
      \cup [kind : {"status", "raise", "badjson"}, vec : {"-"}]

D_x == <<"x">>
D_y == <<"y">>

\* one element of the index's "result"
Hits ==
    [payload : [content : {D_x, D_y, <<>>}], score : {81, 10}]
      \cup { [payload |-> [source |-> "f"], score |-> 70],
             [score |-> 40] }

\* the index answers at most limit hits, in descending score order, all of
\* them at or above the score threshold when the call carries one
HitLists(limit, threshold) ==
    { hs \in UNION { [1..n -> Hits] : n \in 0..limit } :
        /\ \A i \in 1..Len(hs) : hs[i].score >= threshold
        /\ \A i \in 1..(Len(hs) - 1) : hs[i].score >= hs[i + 1].score }

\* what the index does with one search call
SearchOutcomes(limit, threshold) ==
    [kind : {"ok"}, hits : HitLists(limit, threshold)]
      \cup [kind : {"status", "raise", "badjson", "noresult"}, hits : {<<>>}]

\* one chunk of an upstream body: a JSON document or not, and its length
\* in bytes
Chunks ==
    { [id |-> "j1", json |-> TRUE, len |-> 10],
      [id |-> "j2", json |-> TRUE, len |-> CHUNK_SIZE + 1],
      [id |-> "t", json |-> FALSE, len |-> 10] }

Bodies ==
    { b \in UNION { [1..n -> Chunks] : n \in 1..MaxChunks } :
        \/ \A i \in 1..Len(b) : b[i].json
        \/ Len(b) = 1 }

\* what the generation backend does with one call
UpstreamOutcomes ==
    [kind : {"resp"}, status : {200, 404}, body : Bodies]
      \cup [kind : {"raise"}, status : {0}, body : {<<>>}]

\* resp.json() succeeds: the body is one JSON document
Parsable(body) == Len(body) = 1 /\ body[1].json

\* -------------------------------------------------- rag_api: pure pieces
NL2 == <<"\n\n">>

\* EmbedVector without the status check: the body of an error answer is
\* indexed like an embedding
EmbedVectorNoStatusCheck(eo) ==
    IF eo.kind \in {"ok", "status"} THEN eo.vec ELSE "None"

\* resp.json()[0] of the embedding call, or None when the call fails
EmbedVector(eo) == IF eo.kind = "ok" THEN eo.vec ELSE "None"

\* the docs loop of get_rag_context: every hit is indexed by "payload",
\* so a hit without payload raises and the handler's except returns None
RagDocs(hits) ==
    IF \E i \in 1..Len(hits) : "payload" \notin DOMAIN hits[i] THEN Nothing
    ELSE LET withContent ==
                 SelectSeq(hits, LAMBDA h : "content" \in DOMAIN h.payload)
         IN  Some([i \in 1..Len(withContent) |->
                       withContent[i].payload.content])

\* what get_rag_context returns once the search call has answered
RagContext(so) ==
    IF so.kind \in {"status", "raise", "badjson"} THEN Nothing
    ELSE LET docs == RagDocs(IF so.kind = "ok" THEN so.hits ELSE <<>>)
         IN  IF Truthy(docs) THEN Some(Join(docs.val, NL2)) ELSE Nothing

GEN_HEAD == <<"INFORMACION:\n">>
GEN_DELIM == <<"\n\n---\n\nBasandote en la informacion anterior:\n">>
CHAT_HEAD == <<"[Context Information]\n">>
CHAT_DELIM == <<"\n\n[Question]\n">>

\* the rewritten prompt of generate
GenPrompt(context, prompt) == GEN_HEAD \o context \o GEN_DELIM \o prompt

\* the rewritten content of the last user message of chat_with_rag
ChatContent(context, original) ==
    CHAT_HEAD \o context \o CHAT_DELIM \o original

IsUser(m) == "role" \in DOMAIN m /\ m.role = "user"

RECURSIVE LastUser(_)
\* for msg in reversed(messages): if msg.get("role") == "user": break
\* the index of the message the loop stops at, 0 when it runs to the end,
\* -1 when msg.get raises on a message that is not an object
LastUser(messages) ==
    IF messages = <<>> THEN 0
    ELSE LET n == Len(messages) IN
         IF ~IsDict(messages[n]) THEN -1
         ELSE IF IsUser(messages[n]) THEN n
         ELSE LastUser(SubSeq(messages, 1, n - 1))

\* prompt_for_rag of chat_with_rag
PromptForRag(messages) ==
    IF LastUser(messages) > 0
    THEN Get(messages[LastUser(messages)], "content", <<>>)
    ELSE <<>>

\* InjectMessages without the break: every user message is rewritten
InjectMessagesNoBreak(messages, context) ==
    [i \in 1..Len(messages) |->
        IF IsDict(messages[i]) /\ IsUser(messages[i])
        THEN SetKey(messages[i], "content",
                    ChatContent(context, Get(messages[i], "content", <<>>)))
        ELSE messages[i]]

\* the messages after the injection loop of chat_with_rag
InjectMessages(messages, context) ==
    LET n == LastUser(messages) IN
    IF n <= 0 THEN messages
    ELSE [messages EXCEPT ![n] =
             SetKey(@, "content",
                    ChatContent(context, Get(@, "content", <<>>)))]

\* ------------------------------------------------- injector: pure pieces
weather_keywords ==
    { <<"t", "i", "e", "m", "p", "o">>,
      <<"w", "e", "a", "t", "h", "e", "r">>,
      <<"t", "e", "m", "p", "e", "r", "a", "t", "u", "r", "a">>,
      <<"c", "l", "i", "m", "a", "t", "e">>,
      <<"c", "l", "i", "m", "a'", "t", "i", "c", "o">>,
      <<"m", "a", "d", "r", "i", "d">>,
      <<"b", "a", "r", "c", "e", "l", "o", "n", "a">>,
      <<"v", "a", "l", "e", "n", "c", "i", "a">>,
      <<"e", "s", "p", "a", "n~", "a">>,
      <<"s", "p", "a", "i", "n">>,
      <<"l", "l", "u", "v", "i", "a">>,
      <<"r", "a", "i", "n">>,
      <<"n", "u", "b", "l", "a", "d", "o">>,
      <<"c", "l", "o", "u", "d", "y">>,
      <<"s", "o", "l", "e", "a", "d", "o">>,
      <<"s", "u", "n", "n", "y">> }

\* IsWeatherQuery with an empty string among the keywords
IsWeatherQueryEmptyKeyword(prompt) ==
    \E keyword \in weather_keywords \cup {<<>>} :
        Contains(keyword, Lower(prompt))

\* is_weather_query of inject_context
IsWeatherQuery(prompt) ==
    \E keyword \in weather_keywords : Contains(keyword, Lower(prompt))

SCORE_THRESHOLD == 30    \* "score_threshold": 0.3, in hundredths

\* documents of search_context once the search call has answered
InjDocs(so) ==
    IF so.kind # "ok" THEN <<>>
    ELSE LET good == SelectSeq(so.hits,
                 LAMBDA h : /\ "payload" \in DOMAIN h
                            /\ "content" \in DOMAIN h.payload)
         IN  [i \in 1..Len(good) |-> good[i].payload.content]

\* the templates of inject_context, their accented letters unaccented
INJ_HEAD == <<"INFORMACION RELEVANTE:\n\n">>
INJ_DELIM == <<"---\n\n">>
INJ_ASK == <<"Basandote en la informacion anterior, responde: ">>

\* InjectedPrompt without the early return on an empty document list
InjectedPromptNoEmptyCheck(prompt, documents) ==
    INJ_HEAD
      \o Concat([i \in 1..Len(documents) |-> documents[i] \o NL2])
      \o INJ_DELIM \o INJ_ASK \o prompt

\* what inject_context returns for the documents found
InjectedPrompt(prompt, documents) ==
    IF documents = <<>> THEN prompt
    ELSE INJ_HEAD
           \o Concat([i \in 1..Len(documents) |-> documents[i] \o NL2])
           \o INJ_DELIM \o INJ_ASK \o prompt

\* the documents the search step of each implementation hands on for an
\* answered search, Nothing when the step raised on the way
RetrievedDocs(i, so) ==
    IF i = "injector" THEN Some(InjDocs(so)) ELSE RagDocs(so.hits)

\* what process_request leaves in data once inject_context has returned
InjAugment(d, documents) ==
    SetKey(d, "prompt", InjectedPrompt(Get(d, "prompt", <<>>), documents))

\* data of rag_api's generate after "if context:"
RagGenerateAugment(d, context) ==
    IF Truthy(context)
    THEN SetKey(d, "prompt",
                GenPrompt(context.val, Get(d, "prompt", <<>>)))
    ELSE d

\* data of chat_with_rag after "if context:"; messages is the list object
\* inside data, rewritten in place
RagChatAugment(d, context) ==
    IF Truthy(context)
    THEN SetKey(d, "messages", InjectMessages(d.messages, context.val))
    ELSE d

\* ------------------------------------------------------------------- state
VARIABLES
    pc,        \* per request: idle, embed, search, forward, stream, done
    req,       \* the inbound request: impl, route, method, body as received
    data,      \* the handler's request object (request.json, rewritten)
    query,     \* the extracted query text
    embedded,  \* the outcome of the embedding call
    vec,       \* the vector the embedding call returned
    found,     \* the outcome of the search call
    calls,     \* the outbound calls issued so far, in order
    upstream,  \* what the generation backend did with the upstream call
    resp,      \* the response returned to the caller
    pending,   \* streamed mode: upstream chunks not yet received
    sent,      \* streamed mode: the pieces yielded to the caller so far
    down,      \* the dependencies that have stopped answering, for good
    md5,       \* data indexer: the digest of each key
    points,    \* data indexer: the points of the collection, by id
    up,        \* bootstrap scripts: the uploader / configurator and its position
    ix         \* data indexer: the DataIndexerService and its position

\* the state of the proxies
proxyVars ==
    <<pc, req, data, query, embedded, vec, found, calls, upstream, resp,
      pending, sent>>

\* the state of the other programs of the repository
otherVars == <<md5, points, up, ix>>

vars == <<proxyVars, down, otherVars>>

NoReq == [impl |-> "-", route |-> "-", method |-> "-", body |-> <<>>]

\* the data indexer's helpers, not used
IndexOff == md5 = <<>> /\ points = <<>>

\* the bootstrap scripts, not started
BootOff == up = [pc |-> "off"]

\* the data indexer service, not started
ServiceOff == ix = [pc |-> "off"]

\* the other programs, not started
OthersOff == IndexOff /\ BootOff /\ ServiceOff

\* the proxies with no request received yet, their dependencies answering
ProxyIdle ==
    /\ pc = [r \in Reqs |-> "idle"]
    /\ req = [r \in Reqs |-> NoReq]
    /\ data = [r \in Reqs |-> <<>>]
    /\ query = [r \in Reqs |-> <<>>]
    /\ embedded = [r \in Reqs |-> None]
    /\ vec = [r \in Reqs |-> "-"]
    /\ found = [r \in Reqs |-> None]
    /\ calls = [r \in Reqs |-> <<>>]
    /\ upstream = [r \in Reqs |-> None]
    /\ resp = [r \in Reqs |-> None]
    /\ pending = [r \in Reqs |-> <<>>]
    /\ sent = [r \in Reqs |-> <<>>]
    /\ down = {}

Init == ProxyIdle /\ OthersOff

\* a response of the proxy
Response(status, kind, body) ==
    [status |-> status, kind |-> kind, body |-> body]

\* an exception no handler catches: Flask answers 500
Unhandled == Response(500, "unhandled", <<>>)

\* slot r takes an inbound request
Accept(r, i, route, method, body) ==
    /\ pc[r] = "idle"
    /\ req' = [req EXCEPT ![r] = [impl |-> i, route |-> route,
                                  method |-> method, body |-> body]]

\* nothing is in flight, and r is the first slot
OneAtATime(r) == \A q \in Reqs : pc[q] = "idle" /\ r <= q

\* rag_api.generate up to its first outbound call
RagGenerate(r, d) ==
    /\ Accept(r, "rag_api", "generate", "POST", d)
    /\ data' = [data EXCEPT ![r] = d]
    /\ query' = [query EXCEPT ![r] = Get(d, "prompt", <<>>)]
    /\ pc' = [pc EXCEPT ![r] = "embed"]
    /\ UNCHANGED <<embedded, vec, found, calls, upstream, resp, pending, sent>>

\* rag_api.chat_with_rag up to its first outbound call
RagChat(r, d) ==
    LET messages == Get(d, "messages", <<>>) IN
    /\ Accept(r, "rag_api", "chat", "POST", d)
    /\ data' = [data EXCEPT ![r] = d]
    /\ IF LastUser(messages) < 0
       THEN /\ resp' = [resp EXCEPT ![r] = Unhandled]
            /\ pc' = [pc EXCEPT ![r] = "done"]
            /\ UNCHANGED query
       ELSE /\ query' = [query EXCEPT ![r] = PromptForRag(messages)]
            /\ pc' = [pc EXCEPT ![r] =
                        IF PromptForRag(messages) # <<>>
                        THEN "embed" ELSE "forward"]
            /\ UNCHANGED resp
    /\ UNCHANGED <<embedded, vec, found, calls, upstream, pending, sent>>

\* data.get("stream") is False
StreamIsFalse(d) == "stream" \in DOMAIN d /\ d.stream = FALSE

\* data.get("stream") is truthy
StreamIsTrue(d) == "stream" \in DOMAIN d /\ d.stream = TRUE

\* injector.generate up to its first outbound call: process_request and
\* the keyword gate of inject_context
InjGenerate(r, d) ==
    LET prompt == Get(d, "prompt", <<>>)
        gated == StreamIsFalse(d) /\ prompt # <<>>
    IN
    /\ Accept(r, "injector", "generate", "POST", d)
    /\ query' = [query EXCEPT ![r] = IF gated THEN prompt ELSE <<>>]
    /\ IF gated /\ IsWeatherQuery(prompt)
       THEN /\ data' = [data EXCEPT ![r] = d]
            /\ pc' = [pc EXCEPT ![r] = "embed"]
       ELSE /\ data' = [data EXCEPT ![r] =
                           IF gated THEN SetKey(d, "prompt", prompt) ELSE d]
            /\ pc' = [pc EXCEPT ![r] = "forward"]
    /\ UNCHANGED <<embedded, vec, found, calls, upstream, resp, pending, sent>>

\* proxy(path) of either implementation up to its outbound call; the
\* injector has no chat route, so its /api/chat is a passthrough too
Proxy(r, i, route, method, d) ==
    /\ \/ route \in PassPaths
       \/ i = "injector" /\ route = "chat" /\ method = "POST"
    /\ Accept(r, i, route, method, d)
    /\ data' = [data EXCEPT ![r] = d]
    /\ pc' = [pc EXCEPT ![r] = "forward"]
    /\ UNCHANGED <<query, embedded, vec, found, calls, upstream, resp,
                   pending, sent>>

\* health() of either implementation up to its outbound call
Health(r, i) ==
    /\ Accept(r, i, "health", "GET", <<>>)
    /\ pc' = [pc EXCEPT ![r] = "forward"]
    /\ UNCHANGED <<data, query, embedded, vec, found, calls, upstream, resp,
                   pending,
                   sent>>

\* ---------------------------------------------------------- outbound calls
EmbedCall(text) ==
    [svc |-> "embed", method |-> "POST", path |-> "/embed",
     body |-> [inputs |-> <<text>>], timeout |-> 30]

\* SearchCall sending a vector of its own instead of the one it is given
SearchCallOwnVector(vector, limit, threshold) ==
    [svc |-> "search", method |-> "POST",
     path |-> "/collections/documents/points/search",
     body |-> [vector |-> "v1", limit |-> limit, with_payload |-> TRUE,
               score_threshold |-> threshold],
     timeout |-> 10]

\* threshold 0 stands for a call without "score_threshold"
SearchCall(vector, limit, threshold) ==
    [svc |-> "search", method |-> "POST",
     path |-> "/collections/documents/points/search",
     body |-> [vector |-> vector, limit |-> limit, with_payload |-> TRUE,
               score_threshold |-> threshold],
     timeout |-> 10]

\* BackendCall issued without "timeout=": 0 stands for no timeout
BackendCallNoTimeout(method, path, body, timeout) ==
    [svc |-> "backend", method |-> method, path |-> path, body |-> body,
     timeout |-> 0]

BackendCall(method, path, body, timeout) ==
    [svc |-> "backend", method |-> method, path |-> path, body |-> body,
     timeout |-> timeout]

\* the text each implementation sends to the embedding service
EmbedText(i, q) == IF i = "rag_api" THEN Normalize(q) ELSE q

\* the score threshold each implementation sends to the index
SearchThreshold(i) == IF i = "rag_api" THEN 0 ELSE SCORE_THRESHOLD

\* data once the augmentation path is over, from the search outcome so
\* (a failed embedding call is a search that never answered)
Augmented(i, route, d, so) ==
    IF i = "injector" THEN InjAugment(d, InjDocs(so))
    ELSE IF route = "generate" THEN RagGenerateAugment(d, RagContext(so))
    ELSE RagChatAugment(d, RagContext(so))

NoSearch == [kind |-> "raise", hits |-> <<>>]

\* the embedding call of get_rag_context / search_context
Embed(r, eo) ==
    /\ pc[r] = "embed"
    /\ calls' = [calls EXCEPT ![r] =
                    Append(@, EmbedCall(EmbedText(req[r].impl, query[r])))]
    /\ embedded' = [embedded EXCEPT ![r] = eo]
    /\ IF EmbedVector(eo) = "None"
       THEN /\ data' = [data EXCEPT ![r] =
                           Augmented(req[r].impl, req[r].route, @, NoSearch)]
            /\ pc' = [pc EXCEPT ![r] = "forward"]
            /\ UNCHANGED vec
       ELSE /\ vec' = [vec EXCEPT ![r] = EmbedVector(eo)]
            /\ pc' = [pc EXCEPT ![r] = "search"]
            /\ UNCHANGED data
    /\ UNCHANGED <<req, query, found, upstream, resp, pending, sent>>

\* Search with the rewritten request kept in a module-level global
\* instead of the handler's own data
SearchSharedData(r, so) ==
    /\ pc[r] = "search"
    /\ calls' = [calls EXCEPT ![r] =
                    Append(@, SearchCall(vec[r], SEARCH_LIMIT,
                                         SearchThreshold(req[r].impl)))]
    /\ found' = [found EXCEPT ![r] = so]
    /\ data' = [q \in Reqs |->
                   Augmented(req[r].impl, req[r].route, data[r], so)]
    /\ pc' = [pc EXCEPT ![r] = "forward"]
    /\ UNCHANGED <<req, query, embedded, vec, upstream, resp, pending, sent>>

\* the search call of get_rag_context / search_context, and the rewriting
\* of the request that follows it
Search(r, so) ==
    /\ pc[r] = "search"
    /\ calls' = [calls EXCEPT ![r] =
                    Append(@, SearchCall(vec[r], SEARCH_LIMIT,
                                         SearchThreshold(req[r].impl)))]
    /\ found' = [found EXCEPT ![r] = so]
    /\ data' = [data EXCEPT ![r] =
                   Augmented(req[r].impl, req[r].route, @, so)]
    /\ pc' = [pc EXCEPT ![r] = "forward"]
    /\ UNCHANGED <<req, query, embedded, vec, upstream, resp, pending, sent>>

GEN_TIMEOUT_RAG == 600
GEN_TIMEOUT_INJ == 300
PROXY_TIMEOUT == 30
HEALTH_TIMEOUT == 5

\* rag_api.generate: "return resp.json()" answers 200 whatever the
\* upstream status; a body that is not one JSON document raises
RagGenerateResponse(uo) ==
    IF uo.kind = "raise" \/ ~Parsable(uo.body) THEN Unhandled
    ELSE Response(200, "json", uo.body)

\* rag_api.chat_with_rag after the upstream call
RagChatResponse(uo) ==
    IF uo.kind = "raise" THEN Unhandled
    ELSE IF uo.status >= 400
    THEN IF Parsable(uo.body)
         THEN Response(200, "keys", uo.body)    \* Response(resp.json())
         ELSE Response(uo.status, "envelope", <<>>)
    ELSE IF Parsable(uo.body) THEN Response(200, "json", uo.body)
    ELSE Response(200, "text", uo.body)

\* InjGenerateResponse with the except branch answering without ", 500"
InjGenerateResponseNoStatus(uo) ==
    IF uo.kind = "raise" \/ ~Parsable(uo.body)
    THEN Response(200, "envelope", <<>>)
    ELSE Response(uo.status, "json", uo.body)

\* injector.generate in buffered mode
InjGenerateResponse(uo) ==
    IF uo.kind = "raise" \/ ~Parsable(uo.body)
    THEN Response(500, "envelope", <<>>)
    ELSE Response(uo.status, "json", uo.body)

\* the upstream call of rag_api.generate and its response
RagForwardGenerate(r, uo) ==
    /\ pc[r] = "forward"
    /\ req[r].impl = "rag_api" /\ req[r].route = "generate"
    /\ calls' = [calls EXCEPT ![r] =
          Append(@, BackendCall("POST", "generate", data[r],
                                GEN_TIMEOUT_RAG))]
    /\ upstream' = [upstream EXCEPT ![r] = uo]
    /\ resp' = [resp EXCEPT ![r] = RagGenerateResponse(uo)]
    /\ pc' = [pc EXCEPT ![r] = "done"]
    /\ UNCHANGED <<req, data, query, embedded, vec, found, pending, sent>>

\* the upstream call of rag_api.chat_with_rag and its response
RagForwardChat(r, uo) ==
    /\ pc[r] = "forward"
    /\ req[r].impl = "rag_api" /\ req[r].route = "chat"
    /\ calls' = [calls EXCEPT ![r] =
          Append(@, BackendCall("POST", "chat", data[r], GEN_TIMEOUT_RAG))]
    /\ upstream' = [upstream EXCEPT ![r] = uo]
    /\ resp' = [resp EXCEPT ![r] = RagChatResponse(uo)]
    /\ pc' = [pc EXCEPT ![r] = "done"]
    /\ UNCHANGED <<req, data, query, embedded, vec, found, pending, sent>>

\* the upstream call of injector.generate; with a truthy "stream" the
\* response is the generator over the upstream body, status 200
InjForwardGenerate(r, uo) ==
    /\ pc[r] = "forward"
    /\ req[r].impl = "injector" /\ req[r].route = "generate"
    /\ calls' = [calls EXCEPT ![r] =
          Append(@, BackendCall("POST", "generate", data[r],
                                GEN_TIMEOUT_INJ))]
    /\ upstream' = [upstream EXCEPT ![r] = uo]
    /\ IF uo.kind = "resp" /\ StreamIsTrue(data[r])
       THEN /\ resp' = [resp EXCEPT ![r] = Response(200, "stream", <<>>)]
            /\ pending' = [pending EXCEPT ![r] = uo.body]
            /\ pc' = [pc EXCEPT ![r] = "stream"]
       ELSE /\ resp' = [resp EXCEPT ![r] = InjGenerateResponse(uo)]
            /\ pc' = [pc EXCEPT ![r] = "done"]
            /\ UNCHANGED pending
    /\ UNCHANGED <<req, data, query, embedded, vec, found, sent>>

\* the passthrough routes forward the path they were called on
ProxyPath(route) == route

\* the body proxy() sends: request.json for POST and PUT, none otherwise
ProxyBody(method, d) == IF method \in {"POST", "PUT"} THEN d ELSE None

\* the timeout of proxy(): rag_api gives POST the generation timeout
ProxyTimeout(i, method) ==
    IF i = "rag_api" /\ method = "POST" THEN GEN_TIMEOUT_RAG
    ELSE PROXY_TIMEOUT

\* rag_api.proxy: resp.json(), else resp.text, both answered with 200
RagProxyResponse(uo) ==
    IF uo.kind = "raise" THEN Unhandled
    ELSE IF Parsable(uo.body) THEN Response(200, "json", uo.body)
    ELSE Response(200, "text", uo.body)

\* injector.proxy: response.json() with the upstream status
InjProxyResponse(uo) ==
    IF uo.kind = "raise" \/ ~Parsable(uo.body)
    THEN Response(500, "envelope", <<>>)
    ELSE Response(uo.status, "json", uo.body)

ProxyResponse(i, uo) ==
    IF i = "rag_api" THEN RagProxyResponse(uo) ELSE InjProxyResponse(uo)

\* the upstream call of proxy(path) and its response
ProxyForward(r, uo) ==
    /\ pc[r] = "forward"
    /\ \/ req[r].route \in PassPaths
       \/ req[r].impl = "injector" /\ req[r].route = "chat"
    /\ calls' = [calls EXCEPT ![r] =
          Append(@, BackendCall(req[r].method, ProxyPath(req[r].route),
                                ProxyBody(req[r].method, data[r]),
                                ProxyTimeout(req[r].impl, req[r].method)))]
    /\ upstream' = [upstream EXCEPT ![r] = uo]
    /\ resp' = [resp EXCEPT ![r] = ProxyResponse(req[r].impl, uo)]
    /\ pc' = [pc EXCEPT ![r] = "done"]
    /\ UNCHANGED <<req, data, query, embedded, vec, found, pending, sent>>

HealthOk == Response(200, "ok", <<>>)
HealthError == Response(500, "error", <<>>)

\* rag_api.health: ok unless the call raises
RagHealthResponse(uo) == IF uo.kind = "raise" THEN HealthError ELSE HealthOk

\* injector.health: ok when the call answers 200
InjHealthResponse(uo) ==
    IF uo.kind = "resp" /\ uo.status = 200 THEN HealthOk ELSE HealthError

HealthResponse(i, uo) ==
    IF i = "rag_api" THEN RagHealthResponse(uo) ELSE InjHealthResponse(uo)

\* the query health() sends to the backend and its response
HealthCheck(r, uo) ==
    /\ pc[r] = "forward"
    /\ req[r].route = "health"
    /\ calls' = [calls EXCEPT ![r] =
          Append(@, BackendCall("GET", "tags", None, HEALTH_TIMEOUT))]
    /\ upstream' = [upstream EXCEPT ![r] = uo]
    /\ resp' = [resp EXCEPT ![r] = HealthResponse(req[r].impl, uo)]
    /\ pc' = [pc EXCEPT ![r] = "done"]
    /\ UNCHANGED <<req, data, query, embedded, vec, found, pending, sent>>

RECURSIVE Split(_, _, _)
\* a chunk of n bytes cut into pieces of at most size bytes
Split(c, n, size) ==
    IF n <= size THEN <<[c EXCEPT !.len = n]>>
    ELSE <<[c EXCEPT !.len = size]>> \o Split(c, n - size, size)

\* what iter_content(chunk_size=1024) yields for one upstream chunk
Pieces(c) == Split(c, c.len, CHUNK_SIZE)

\* generate_stream: the next upstream chunk arrives and is yielded
StreamChunk(r) ==
    /\ pc[r] = "stream"
    /\ pending[r] # <<>>
    /\ sent' = [sent EXCEPT ![r] = @ \o Pieces(Head(pending[r]))]
    /\ pending' = [pending EXCEPT ![r] = Tail(@)]
    /\ UNCHANGED <<pc, req, data, query, embedded, vec, found, calls,
                   upstream, resp>>

\* generate_stream: the upstream body is over, the response ends
StreamEnd(r) ==
    /\ pc[r] = "stream"
    /\ pending[r] = <<>>
    /\ pc' = [pc EXCEPT ![r] = "done"]
    /\ UNCHANGED <<req, data, query, embedded, vec, found, calls, upstream,
                   resp,
                   pending, sent>>

\* StreamDrop with the generator swallowing the exception and waiting for
\* more of the body
StreamDropKeepsWaiting(r) ==
    /\ pc[r] = "stream"
    /\ pending[r] # <<>>
    /\ resp[r].kind = "stream"
    /\ resp' = [resp EXCEPT ![r] = Response(200, "stream_aborted", <<>>)]
    /\ UNCHANGED <<pc, req, data, query, embedded, vec, found, calls,
                   upstream, pending, sent>>

\* generate_stream: the upstream connection drops, iter_content raises
\* and the response is cut short
StreamDrop(r) ==
    /\ pc[r] = "stream"
    /\ pending[r] # <<>>
    /\ resp' = [resp EXCEPT ![r] = Response(200, "stream_aborted", <<>>)]
    /\ pc' = [pc EXCEPT ![r] = "done"]
    /\ UNCHANGED <<req, data, query, embedded, vec, found, calls, upstream,
                   pending,
                   sent>>

\* the inbound request object, request.json: "data = request.json" binds
\* the handler's data to that very object, and process_request returns the
\* dict it was given, so every assignment to data[...] or msg[...] is an
\* assignment to the inbound object
RequestJson(r) == data[r]

\* what the caller receives, unit by unit: the pieces of a streamed
\* response, or the whole body of a buffered one as a single unit
Emitted(r) ==
    IF resp[r].kind \in {"stream", "stream_aborted"} THEN sent[r]
    ELSE IF resp[r].kind \notin {"json", "text"} THEN <<>>
    ELSE IF Len(resp[r].body) = 1 THEN resp[r].body
    ELSE <<[id |-> "whole", json |-> FALSE, len |-> 0]>>

\* ----------------------------------------------------------- specification
Next ==
    \E r \in Reqs :
        \/ /\ UNCHANGED <<down, otherVars>>
           /\ OneAtATime(r)
           /\ \/ \E d \in GenRequests : RagGenerate(r, d)
              \/ \E d \in ChatRequests : RagChat(r, d)
              \/ \E d \in GenRequests : InjGenerate(r, d)
              \/ \E i \in Impls, path \in PassPaths, m \in Methods,
                    d \in OtherRequests \cup {None} :
                    /\ m \in {"POST", "PUT"} => d # None
                    /\ Proxy(r, i, path, m, d)
              \/ \E d \in ChatRequests :
                    Proxy(r, "injector", "chat", "POST", d)
              \/ \E i \in Impls : Health(r, i)
        \/ /\ UNCHANGED <<down, otherVars>>
           /\ pc[r] = "embed"
           /\ \E eo \in EmbedOutcomes : Embed(r, eo)
        \/ /\ UNCHANGED <<down, otherVars>>
           /\ pc[r] = "search"
           /\ \E so \in SearchOutcomes(SEARCH_LIMIT,
                                       SearchThreshold(req[r].impl)) :
                 Search(r, so)
        \/ /\ UNCHANGED <<down, otherVars>>
           /\ pc[r] = "forward"
           /\ \E uo \in UpstreamOutcomes :
                 \/ RagForwardGenerate(r, uo)
                 \/ RagForwardChat(r, uo)
                 \/ InjForwardGenerate(r, uo)
                 \/ ProxyForward(r, uo)
                 \/ HealthCheck(r, uo)
        \/ /\ UNCHANGED <<down, otherVars>>
           /\ StreamChunk(r)
        \/ /\ UNCHANGED <<down, otherVars>>
           /\ StreamEnd(r)
        \/ /\ UNCHANGED <<down, otherVars>>
           /\ StreamDrop(r)

Spec == Init /\ [][Next]_vars

\* ------------------------------------------- rag_api.generate on any prompt
\* the characters that normalization treats differently: the two
\* characters of the removed artifact, the question mark, an upper-case
\* letter, an accented letter, a combining mark and a plain letter
NormAlphabet == {"A^", "?!", "?", "R", "a'", "^", "a"}

NormPrompts == UNION { [1..n -> NormAlphabet] : n \in 0..MaxLen }

NormRequests == { [model |-> "m", prompt |-> p] : p \in NormPrompts }

NormSearchOutcomes ==
    { [kind |-> "ok",
       hits |-> <<[payload |-> [content |-> D_x], score |-> 81]>>],
      [kind |-> "status", hits |-> <<>>] }

NormUpstreamOutcomes ==
    { uo \in UpstreamOutcomes :
        uo.kind = "raise" \/ (uo.status = 200 /\ Len(uo.body) = 1) }

\* rag_api.generate alone, its prompt drawn from every text of at most
\* MaxLen characters
NextNorm ==
    \E r \in Reqs :
        \/ /\ UNCHANGED <<down, otherVars>>
           /\ OneAtATime(r)
           /\ \E d \in NormRequests : RagGenerate(r, d)
        \/ /\ UNCHANGED <<down, otherVars>>
           /\ pc[r] = "embed"
           /\ \E eo \in EmbedOutcomes : Embed(r, eo)
        \/ /\ UNCHANGED <<down, otherVars>>
           /\ pc[r] = "search"
           /\ \E so \in NormSearchOutcomes : Search(r, so)
        \/ /\ UNCHANGED <<down, otherVars>>
           /\ pc[r] = "forward"
           /\ \E uo \in NormUpstreamOutcomes : RagForwardGenerate(r, uo)

SpecNorm == Init /\ [][NextNorm]_vars

\* -------------------------------------------------------- requests in flight
\* one request of each handler that runs the retrieval policy, and one
\* streamed request
ConcRagGenerate == [model |-> "m", prompt |-> P_rain]
ConcRagChat ==
    [model |-> "m", messages |-> <<[role |-> "user", content |-> P_rain]>>]
ConcInjGenerate == {[model |-> "m", prompt |-> P_rain, stream |-> st] :
                       st \in BOOLEAN}

ConcEmbedOutcomes == { eo \in EmbedOutcomes : eo.vec \in {"v1", "-"} }

\* the handlers of the generation routes, each slot taking a request
\* whenever it is idle and every request in flight stepping in any order:
\* Flask serves each request on a thread of its own
NextConc ==
    \E r \in Reqs :
        \/ /\ UNCHANGED <<down, otherVars>>
           /\ pc[r] = "idle"
           /\ \/ RagGenerate(r, ConcRagGenerate)
              \/ RagChat(r, ConcRagChat)
              \/ \E d \in ConcInjGenerate : InjGenerate(r, d)
        \/ /\ UNCHANGED <<down, otherVars>>
           /\ pc[r] = "embed"
           /\ \E eo \in ConcEmbedOutcomes : Embed(r, eo)
        \/ /\ UNCHANGED <<down, otherVars>>
           /\ pc[r] = "search"
           /\ \E so \in NormSearchOutcomes : Search(r, so)
        \/ /\ UNCHANGED <<down, otherVars>>
           /\ pc[r] = "forward"
           /\ \E uo \in NormUpstreamOutcomes :
                 \/ RagForwardGenerate(r, uo)
                 \/ RagForwardChat(r, uo)
                 \/ InjForwardGenerate(r, uo)
        \/ /\ UNCHANGED <<down, otherVars>>
           /\ StreamChunk(r)
        \/ /\ UNCHANGED <<down, otherVars>>
           /\ StreamEnd(r)
        \/ /\ UNCHANGED <<down, otherVars>>
           /\ StreamDrop(r)

SpecConc == Init /\ [][NextConc]_vars

\* ------------------------------------------------- dependencies that stall
Services == {"embed", "search", "backend"}

\* a dependency stops sending bytes and never resumes
Stall(svc) ==
    /\ svc \notin down
    /\ down' = down \cup {svc}
    /\ UNCHANGED <<proxyVars, otherVars>>

\* requests' "timeout=": a call to a dependency that has stalled returns
\* only if it carries a timeout, and then by raising; kind is what the
\* caller observes
Returns(call, kind) ==
    call.svc \in down => (call.timeout > 0 /\ kind = "raise")

\* the call the step that is being taken has issued
Issued(r) == calls'[r][Len(calls'[r])]

\* the timeout of the upstream call covers every read of a streamed body:
\* iter_content raises once the backend has stalled
StreamReturns(r) ==
    "backend" \in down =>
        LET c == calls[r][Len(calls[r])] IN c.timeout > 0

LiveRequests ==
    { d \in GenRequests : "prompt" \in DOMAIN d /\ d.prompt = P_rain }

\* the backend raises, or answers 200 with a body of JSON chunks
LiveUpstreamOutcomes ==
    { uo \in UpstreamOutcomes :
        \/ uo.kind = "raise"
        \/ /\ uo.status = 200
           /\ \A i \in 1..Len(uo.body) : uo.body[i].json }

\* the steps of the handler that serves request r, each returning as
\* Returns allows
Handler(r) ==
    \/ /\ UNCHANGED <<down, otherVars>>
       /\ pc[r] = "embed"
       /\ \E eo \in ConcEmbedOutcomes :
             Embed(r, eo) /\ Returns(Issued(r), eo.kind)
    \/ /\ UNCHANGED <<down, otherVars>>
       /\ pc[r] = "search"
       /\ \E so \in NormSearchOutcomes \cup {NoSearch} :
             Search(r, so) /\ Returns(Issued(r), so.kind)
    \/ /\ UNCHANGED <<down, otherVars>>
       /\ pc[r] = "forward"
       /\ \E uo \in LiveUpstreamOutcomes :
             /\ \/ RagForwardGenerate(r, uo)
                \/ RagForwardChat(r, uo)
                \/ InjForwardGenerate(r, uo)
                \/ ProxyForward(r, uo)
                \/ HealthCheck(r, uo)
             /\ Returns(Issued(r), uo.kind)
    \/ /\ UNCHANGED <<down, otherVars>>
       /\ "backend" \notin down
       /\ StreamChunk(r)
    \/ /\ UNCHANGED <<down, otherVars>>
       /\ StreamEnd(r)
       /\ StreamReturns(r)
    \/ /\ UNCHANGED <<down, otherVars>>
       /\ StreamDrop(r)
       /\ StreamReturns(r)

\* one request at a time against dependencies that may stall at any moment
NextLive ==
    \/ \E r \in Reqs :
        /\ UNCHANGED <<down, otherVars>>
        /\ OneAtATime(r)
        /\ \/ \E d \in LiveRequests : RagGenerate(r, d)
           \/ RagChat(r, ConcRagChat)
           \/ \E d \in LiveRequests : InjGenerate(r, d)
           \/ \E i \in Impls : Proxy(r, i, "tags", "GET", None)
           \/ \E i \in Impls : Health(r, i)
    \/ \E r \in Reqs : Handler(r)
    \/ \E svc \in Services : Stall(svc)

\* the thread that serves a request keeps running: a step that can be
\* taken is taken
SpecLive ==
    Init /\ [][NextLive]_vars /\ \A r \in Reqs : WF_vars(Handler(r))

\* ------------------------------------------------ data indexer: point ids
\* a hexdigest of 32 digits: 24 times the digit fill, then the 8 digits of
\* tail
Digest(fill, tail) == [i \in 1..32 |-> IF i <= 24 THEN fill ELSE tail[i - 24]]

\* the hexdigests md5 may give: the lowest and the highest, the 32nd bit
\* from the right set alone, and a mixed one
Digests ==
    { Digest(0, <<0, 0, 0, 0, 0, 0, 0, 0>>),
      Digest(15, <<15, 15, 15, 15, 15, 15, 15, 15>>),
      Digest(10, <<8, 0, 0, 0, 0, 0, 0, 0>>),
      Digest(1, <<12, 0, 10, 15, 14, 0, 0, 1>>) }

HALF == 65536      \* 2^16: an integer is kept as two halves, hi * 2^16 + lo

RECURSIVE Pow2(_)
Pow2(n) == IF n = 0 THEN 1 ELSE 2 * Pow2(n - 1)

RECURSIVE IntMod(_, _, _, _)
\* int(hex, 16) % 2**bits, digit by digit from the left, as the halves
\* [hi, lo] of the result (hi, lo are the halves of the digits read so far)
IntMod(hex, bits, hi, lo) ==
    IF hex = <<>> THEN [hi |-> hi, lo |-> lo]
    ELSE LET t == lo * 16 + Head(hex) IN
         IntMod(Tail(hex), bits, (hi * 16 + t \div HALF) % Pow2(bits - 16),
                t % HALF)

SEP == <<":", ":">>

\* hash_id with "% (2**32)"
hash_idMod32(parts) == IntMod(md5[Join(parts, SEP)], 32, 0, 0)

\* hash_id(*parts)
hash_id(parts) == IntMod(md5[Join(parts, SEP)], 31, 0, 0)

FileSource == <<"f", "s">>       \* config.id of the file source
WeatherSource == <<"w", "x">>    \* config.id of the weather source
FilePaths == {<<"/", "d", "/", "a">>, <<"/", "d", "/", "b">>}
Contents == {<<"c", "1">>, <<"c", "2">>, <<" ">>}
LocationIds == {<<"m", "a", "d">>}
Timestamps == {<<"t", "1">>, <<"t", "2">>}

\* the keys hash_id is called on by the two handlers
Keys ==
    { Join(<<FileSource, f>>, SEP) : f \in FilePaths }
      \cup { Join(<<WeatherSource, l, t>>, SEP) :
               l \in LocationIds, t \in Timestamps }

\* content.strip()
Strip(content) == SelectSeq(content, LAMBDA c : c # " ")

\* the collection after the PUT of one point: the point of that id, if
\* any, is replaced
Upsert(collection, id, payload) ==
    [p \in (DOMAIN collection) \cup {id} |->
        IF p = id THEN payload ELSE collection[p]]

\* FileSourceHandler._index_file on a file of the given content, with what
\* embed_text returned and whether the PUT was answered 200 or 201
IndexFile(source, path, content, vector, stored) ==
    /\ IF Strip(content) = <<>> \/ vector = "None" \/ ~stored
       THEN UNCHANGED points
       ELSE points' = Upsert(points, hash_id(<<source, path>>),
                             [source |-> source, file_path |-> path,
                              content |-> content])
    /\ UNCHANGED <<proxyVars, down, md5, up, ix>>

\* one location of WeatherOpenMeteoHandler.run, the snapshot fetched at
\* timestamp
IndexWeather(source, location, timestamp, vector, stored) ==
    /\ IF vector = "None" \/ ~stored
       THEN UNCHANGED points
       ELSE points' = Upsert(points,
                             hash_id(<<source, location, timestamp>>),
                             [source |-> source, location_id |-> location,
                              timestamp |-> timestamp])
    /\ UNCHANGED <<proxyVars, down, md5, up, ix>>

\* md5 is some function of the key; the collection is empty
InitIndex ==
    /\ ProxyIdle /\ BootOff /\ ServiceOff
    /\ md5 \in [Keys -> Digests]
    /\ points = <<>>

\* the handlers index files and locations over and over
NextIndex ==
    \/ \E f \in FilePaths, c \in Contents, v \in {"v1", "None"},
          st \in BOOLEAN :
          IndexFile(FileSource, f, c, v, st)
    \/ \E l \in LocationIds, t \in Timestamps, v \in {"v1", "None"},
          st \in BOOLEAN :
          IndexWeather(WeatherSource, l, t, v, st)

SpecIndex == InitIndex /\ [][NextIndex]_vars

\* ------------------------------------------------------ bootstrap scripts
MAX_RETRIES == 30
RETRY_DELAY == 2

\* the names of DOCUMENTS, in order
DOCUMENTS == <<"Madrid Weather", "Barcelona Weather">>

\* the endpoints upload_document tries, in order
Endpoints == <<"/api/v1/knowledge", "/api/v1/documents",
               "/api/v1/rag/documents">>

\* the statuses a wait loop takes for "ready"
ReadyStatuses(loop) == IF loop = "api" THEN {200} ELSE {200, 301, 302}

\* what a probe, an upload or a login meets: an answer or an exception
BootOutcomes(statuses) ==
    [kind : {"resp"}, status : statuses]
      \cup {[kind |-> "raise", status |-> 0]}

IsReady(o, loop) == o.kind = "resp" /\ o.status \in ReadyStatuses(loop)

\* the script prog at its first statement: the wait for the web UI
BootStart(prog) ==
    [pc |-> "wait", prog |-> prog, loop |-> "webui",
     attempt |-> 0,        \* probes sent by the running wait loop
     seen |-> {},          \* what they met
     paused |-> 0,         \* seconds slept since the last probe
     ret |-> <<>>,         \* the value the wait loop is returning
     ready |-> <<>>,       \* the values the wait loops returned
     token |-> FALSE,      \* authenticate stored a token
     doc |-> 1,            \* the document being uploaded or injected
     posts |-> [d \in 1..Len(DOCUMENTS) |-> <<>>],  \* upload calls, by doc
     uploaded |-> <<>>,    \* what upload_document returned, by doc
     injections |-> 0,     \* calls of inject_documents_to_qdrant
     stored |-> {},        \* the documents put into the index
     result |-> <<>>]      \* the value run() / configure() returned

\* one pass of the loop of wait_for_webui / wait_for_api: the probe and
\* what follows it in the same pass
WaitProbe(o) ==
    /\ up.pc = "wait"
    /\ up.attempt < MAX_RETRIES
    /\ LET u == [up EXCEPT !.attempt = @ + 1, !.seen = @ \cup {o},
                           !.paused = 0]
           last == up.attempt = MAX_RETRIES - 1
       IN up' = IF IsReady(o, up.loop)
                THEN [u EXCEPT !.pc = "waited", !.ret = <<TRUE>>]
                ELSE IF last
                THEN [u EXCEPT !.pc = "waited", !.ret = <<FALSE>>]
                ELSE IF o.kind = "raise"
                THEN [u EXCEPT !.pc = "sleep"]
                ELSE u
    /\ UNCHANGED <<proxyVars, down, md5, points, ix>>

\* time.sleep(RETRY_DELAY) of the except branch
WaitSleep ==
    /\ up.pc = "sleep"
    /\ up' = [up EXCEPT !.pc = "wait", !.paused = RETRY_DELAY]
    /\ UNCHANGED <<proxyVars, down, md5, points, ix>>

\* the uploader with inject_documents_to_qdrant called
InjectCalled(u) ==
    [u EXCEPT !.pc = "inject", !.doc = 1, !.injections = @ + 1]

\* Waited with run() returning at once when the web UI is not ready
WaitedNoFallback ==
    /\ up.pc = "waited"
    /\ LET u == [up EXCEPT !.ready = Append(@, up.ret[1]), !.ret = <<>>,
                           !.attempt = 0, !.seen = {}, !.paused = 0]
       IN up' = IF ~up.ret[1]
                THEN [u EXCEPT !.pc = "end", !.result = <<FALSE>>]
                ELSE IF up.prog = "uploader" THEN [u EXCEPT !.pc = "auth"]
                ELSE IF up.loop = "webui"
                THEN [u EXCEPT !.pc = "wait", !.loop = "api"]
                ELSE [u EXCEPT !.pc = "rest"]
    /\ UNCHANGED <<proxyVars, down, md5, points, ix>>

\* the wait loop returns to run() / configure(), which branches on the
\* value: the uploader injects and gives up when the web UI is not ready;
\* the configurator gives up, or goes on to its second wait and then to
\* the rest of configure()
Waited ==
    /\ up.pc = "waited"
    /\ LET u == [up EXCEPT !.ready = Append(@, up.ret[1]), !.ret = <<>>,
                           !.attempt = 0, !.seen = {}, !.paused = 0]
       IN up' = IF up.prog = "uploader"
                THEN IF up.ret[1] THEN [u EXCEPT !.pc = "auth"]
                     ELSE InjectCalled(u)
                ELSE IF ~up.ret[1]
                THEN [u EXCEPT !.pc = "end", !.result = <<FALSE>>]
                ELSE IF up.loop = "webui"
                THEN [u EXCEPT !.pc = "wait", !.loop = "api"]
                ELSE [u EXCEPT !.pc = "rest"]
    /\ UNCHANGED <<proxyVars, down, md5, points, ix>>

\* authenticate(): the login call; a token is stored on 200 with a JSON
\* body, and run() goes on whatever the outcome
Authenticate(o, json) ==
    /\ up.pc = "auth"
    /\ up' = [up EXCEPT !.token = (o.kind = "resp" /\ o.status = 200 /\ json),
                        !.pc = "upload", !.doc = 1]
    /\ UNCHANGED <<proxyVars, down, md5, points, ix>>

\* upload_document returns value for the document up.doc, and
\* upload_all_documents moves on; after the last document run() calls
\* inject_documents_to_qdrant
Uploaded(u, value) ==
    LET v == [u EXCEPT !.uploaded = Append(@, value)] IN
    IF u.doc < Len(DOCUMENTS) THEN [v EXCEPT !.doc = @ + 1]
    ELSE InjectCalled(v)

\* upload_document on a file that does not exist or cannot be read: no
\* endpoint is called
UploadNoFile ==
    /\ up.pc = "upload"
    /\ up.posts[up.doc] = <<>>
    /\ up' = Uploaded(up, FALSE)
    /\ UNCHANGED <<proxyVars, down, md5, points, ix>>

UploadSucceeded(o) == o.kind = "resp" /\ o.status \in {200, 201}

\* UploadPost with "except: return False" in place of "continue"
UploadPostGivesUp(o) ==
    /\ up.pc = "upload"
    /\ LET n == Len(up.posts[up.doc]) + 1
           u == [up EXCEPT !.posts[up.doc] =
                              Append(@, [url |-> Endpoints[n], outcome |-> o])]
       IN up' = IF UploadSucceeded(o) THEN Uploaded(u, TRUE)
                ELSE IF n = Len(Endpoints) \/ o.kind = "raise"
                THEN Uploaded(u, FALSE)
                ELSE u
    /\ UNCHANGED <<proxyVars, down, md5, points, ix>>

\* one pass of the loop over endpoints: the POST to the next endpoint and
\* what follows it
UploadPost(o) ==
    /\ up.pc = "upload"
    /\ LET n == Len(up.posts[up.doc]) + 1
           u == [up EXCEPT !.posts[up.doc] =
                              Append(@, [url |-> Endpoints[n], outcome |-> o])]
       IN up' = IF UploadSucceeded(o) THEN Uploaded(u, TRUE)
                ELSE IF n = Len(Endpoints) THEN Uploaded(u, FALSE)
                ELSE u
    /\ UNCHANGED <<proxyVars, down, md5, points, ix>>

\* what one pass of the loop of inject_documents_to_qdrant meets: the file
\* is missing, the embedding call answers another status than 200, the
\* point is stored, the PUT is refused, or something raises
InjectOutcomes == {"missing", "embed_status", "stored", "put_status", "raise"}

\* one document of inject_documents_to_qdrant; an exception ends the
\* function, and run() returns whether the web UI was ready
InjectDoc(o) ==
    /\ up.pc = "inject"
    /\ LET u == IF o = "stored" THEN [up EXCEPT !.stored = @ \cup {up.doc}]
                ELSE up
       IN up' = IF o # "raise" /\ up.doc < Len(DOCUMENTS)
                THEN [u EXCEPT !.doc = @ + 1]
                ELSE [u EXCEPT !.pc = "end", !.result = <<up.ready[1]>>]
    /\ UNCHANGED <<proxyVars, down, md5, points, ix>>

BootProgs == {"uploader", "configurator"}

InitBoot ==
    /\ ProxyIdle /\ IndexOff /\ ServiceOff
    /\ \E prog \in BootProgs : up = BootStart(prog)

NextBoot ==
    \/ \E o \in BootOutcomes({200, 302, 503}) : WaitProbe(o)
    \/ WaitSleep
    \/ Waited
    \/ \E o \in BootOutcomes({200, 401}), json \in BOOLEAN :
          Authenticate(o, json)
    \/ UploadNoFile
    \/ \E o \in BootOutcomes({200, 201, 404}) : UploadPost(o)
    \/ \E o \in InjectOutcomes : InjectDoc(o)

SpecBoot == InitBoot /\ [][NextBoot]_vars

\* ---------------------------------------------------- data indexer service
\* the handler types discover_handlers registers
Registry == {"file_source", "weather_open_meteo"}

\* one element of "sources": an object naming a registered type or another
\* one, or a JSON value that is not an object
SourceCfgs ==
    { [id |-> "files", type |-> "file_source"],
      [id |-> "weather", type |-> "weather_open_meteo"],
      [id |-> "db", type |-> "sql"],
      [notdict |-> TRUE] }

SourceLists == UNION { [1..n -> SourceCfgs] : n \in 0..MaxSources }

\* main() at service.load_handlers(), the configuration read
IxStart(sources) ==
    [pc |-> "load", sources |-> sources,
     next |-> 1,           \* the source load_handlers is at
     created |-> <<>>,     \* what _create_handler did for each source
     handlers |-> <<>>,    \* self.handlers, as positions in sources
     ran |-> <<>>,         \* the handlers run by the initial update
     jobs |-> <<>>,        \* the handlers given to the scheduler
     passes |-> 0,         \* passes of the scheduler loop
     errors |-> 0,         \* passes that ended in the except branch
     error |-> "-"]        \* the exception that ended main()

\* load_handlers on an empty list of sources
LoadNothing ==
    /\ ix.pc = "load"
    /\ ix.sources = <<>>
    /\ ix' = [ix EXCEPT !.pc = "crashed", !.error = "ValueError"]
    /\ UNCHANGED <<proxyVars, down, md5, points, up>>

\* _create_handler(cfg): cfg.get on a value that is not an object raises,
\* a type without handler gives None, and the constructor of the handler
\* class returns the handler or raises
CreateHandlerResult(cfg, built) ==
    IF ~IsDict(cfg) THEN "raise"
    ELSE IF cfg.type \notin Registry THEN "none"
    ELSE IF built THEN "handler" ELSE "raise"

\* one pass of the loop of load_handlers; the except branch evaluates
\* source.get("id") for its log line, which raises in turn on a source
\* that is not an object, and that exception leaves load_handlers
CreateHandler(built) ==
    /\ ix.pc = "load"
    /\ ix.next <= Len(ix.sources)
    /\ LET cfg == ix.sources[ix.next]
           res == CreateHandlerResult(cfg, built)
           u == [ix EXCEPT !.created = Append(@, res),
                           !.next = @ + 1,
                           !.pc = IF ix.next = Len(ix.sources)
                                  THEN "run" ELSE "load"]
       IN ix' = IF res = "raise" /\ ~IsDict(cfg)
                THEN [ix EXCEPT !.created = Append(@, res),
                                !.pc = "crashed",
                                !.error = "AttributeError"]
                ELSE IF res = "handler"
                THEN [u EXCEPT !.handlers = Append(@, ix.next)]
                ELSE u
    /\ UNCHANGED <<proxyVars, down, md5, points, up>>

\* run() with no handler loaded
RunNothing ==
    /\ ix.pc = "run"
    /\ ix.handlers = <<>>
    /\ ix' = [ix EXCEPT !.pc = "returned"]
    /\ UNCHANGED <<proxyVars, down, md5, points, up>>

\* the initial update: handler.run() of the next handler, outside any try
InitialRun(ok) ==
    /\ ix.pc = "run"
    /\ Len(ix.ran) < Len(ix.handlers)
    /\ ix' = IF ok
             THEN [ix EXCEPT !.ran = Append(@, ix.handlers[Len(ix.ran) + 1])]
             ELSE [ix EXCEPT !.pc = "crashed", !.error = "handler.run"]
    /\ UNCHANGED <<proxyVars, down, md5, points, up>>

\* schedule.every(...).minutes.do(handler.run) for every handler
ScheduleAll ==
    /\ ix.pc = "run"
    /\ ix.handlers # <<>>
    /\ Len(ix.ran) = Len(ix.handlers)
    /\ ix' = [ix EXCEPT !.jobs = ix.handlers, !.pc = "loop"]
    /\ UNCHANGED <<proxyVars, down, md5, points, up>>

\* one pass of the scheduler loop: run_pending() and the sleep; a job that
\* raises sends the pass through the except branch
LoopPass(raised) ==
    /\ ix.pc = "loop"
    /\ ix.passes < MaxPasses
    /\ ix' = [ix EXCEPT !.passes = @ + 1,
                        !.errors = IF raised THEN @ + 1 ELSE @]
    /\ UNCHANGED <<proxyVars, down, md5, points, up>>

\* KeyboardInterrupt in the scheduler loop
Interrupt ==
    /\ ix.pc = "loop"
    /\ ix' = [ix EXCEPT !.pc = "stopped"]
    /\ UNCHANGED <<proxyVars, down, md5, points, up>>

InitService ==
    /\ ProxyIdle /\ IndexOff /\ BootOff
    /\ \E sources \in SourceLists : ix = IxStart(sources)

NextService ==
    \/ LoadNothing
    \/ \E built \in BOOLEAN : CreateHandler(built)
    \/ RunNothing
    \/ \E ok \in BOOLEAN : InitialRun(ok)
    \/ ScheduleAll
    \/ \E raised \in BOOLEAN : LoopPass(raised)
    \/ Interrupt

SpecService == InitService /\ [][NextService]_vars

\* ------------------------------------------------------------------ claims
\* the calls request r has sent to the generation backend
Forwarded(r) == SelectSeq(calls[r], LAMBDA c : c.svc = "backend")

\* request r has passed its upstream call
PastForward(r) == pc[r] \in {"stream", "done"} /\ Forwarded(r) # <<>>

\* the request body the backend received for r
ForwardedBody(r) == Forwarded(r)[1].body

\* request r arrived on a route that runs the retrieval policy
OnGenerationRoute(r) ==
    \/ req[r].route = "generate"
    \/ req[r].route = "chat" /\ req[r].impl = "rag_api"

EmbedFailed(r) == embedded[r] # None /\ embedded[r].kind # "ok"

SearchFailed(r) ==
    found[r] # None /\ found[r].kind \in {"status", "raise", "badjson"}

\* C1: on a generation or chat route, once the embedding call or the
\* search call has failed, the handler goes on to the upstream call with
\* the request object equal to the inbound body, and the body the backend
\* receives is the inbound body.
C1_DegradeOnRetrievalFailure ==
    \A r \in Reqs :
        (EmbedFailed(r) \/ SearchFailed(r)) =>
            /\ pc[r] \in {"forward", "stream", "done"}
            /\ data[r] = req[r].body
            /\ pc[r] \in {"stream", "done"} =>
                  /\ Forwarded(r) # <<>>
                  /\ ForwardedBody(r) = req[r].body

\* a request with a non-empty query went through a failed embedding call
\* and another through a failed search call, and both were forwarded
C1_Witness ==
    \E r \in Reqs :
        /\ pc[r] = "done"
        /\ query[r] # <<>>
        /\ SearchFailed(r)
        /\ req[r].impl = "injector"
        /\ ForwardedBody(r) = req[r].body

\* the request carries no recognizable user query text
NoQueryText(r) ==
    \/ /\ req[r].route = "generate"
       /\ Get(req[r].body, "prompt", <<>>) = <<>>
    \/ /\ req[r].route = "chat"
       /\ LET messages == Get(req[r].body, "messages", <<>>)
          IN  \/ \A i \in 1..Len(messages) : ~IsUser(messages[i])
              \/ PromptForRag(messages) = <<>>

\* C2: a request without user query text is forwarded to the backend as
\* it came in.
C2_NoQueryPassThrough ==
    \A r \in Reqs :
        (NoQueryText(r) /\ PastForward(r)) => ForwardedBody(r) = req[r].body

HasContent(h) == "payload" \in DOMAIN h /\ "content" \in DOMAIN h.payload

\* the search call of r answered, with no document in the answer
EmptyDocumentSet(r) ==
    /\ found[r] # None
    /\ found[r].kind \in {"ok", "noresult"}
    /\ \A i \in 1..Len(found[r].hits) : ~HasContent(found[r].hits[i])

\* C3: when the search call answers without any hit carrying content, the
\* request object stays equal to the inbound body and that body is what
\* the backend receives.
C3_EmptyRetrievalIsNoOp ==
    \A r \in Reqs :
        EmptyDocumentSet(r) =>
            /\ pc[r] \in {"forward", "stream", "done"}
            /\ data[r] = req[r].body
            /\ pc[r] \in {"stream", "done"} =>
                  /\ Forwarded(r) # <<>>
                  /\ ForwardedBody(r) = req[r].body

\* a search answered hits, none of them with content, for a non-empty
\* query, and the request was forwarded
C3_Witness ==
    \E r \in Reqs :
        /\ pc[r] = "done"
        /\ EmptyDocumentSet(r)
        /\ found[r].hits # <<>>
        /\ query[r] # <<>>
        /\ ForwardedBody(r) = req[r].body

\* the contents of the hits that carry content, in the index's order
DocumentsOf(so) ==
    LET good == SelectSeq(so.hits, HasContent)
    IN  [i \in 1..Len(good) |-> good[i].payload.content]

RECURSIVE ContainsInOrder(_, _)
\* the texts of parts occur in s one after the other, without overlap
ContainsInOrder(parts, s) ==
    IF parts = <<>> THEN TRUE
    ELSE \E i \in 0..(Len(s) - Len(parts[1])) :
            /\ SubSeq(s, i + 1, i + Len(parts[1])) = parts[1]
            /\ ContainsInOrder(Tail(parts),
                               SubSeq(s, i + Len(parts[1]) + 1, Len(s)))

\* the delimiter each handler puts between the context and the question
Delimiter(r) ==
    IF req[r].impl = "injector" THEN INJ_DELIM
    ELSE IF req[r].route = "generate" THEN GEN_DELIM
    ELSE CHAT_DELIM

\* the text augmentation rewrites: the prompt, or the content of the last
\* user message
UserText(r, d) ==
    IF req[r].route = "generate" THEN Get(d, "prompt", <<>>)
    ELSE PromptForRag(Get(d, "messages", <<>>))

\* text is the documents in order, then the delimiter, then the question
\* at the very end
IsAugmentedWith(text, documents, delimiter, question) ==
    /\ EndsWith(text, question)
    /\ ContainsInOrder(documents \o <<delimiter>>,
                       SubSeq(text, 1, Len(text) - Len(question)))

\* the search call of r answered at least one document
DocumentsFound(r) ==
    /\ found[r] # None
    /\ found[r].kind = "ok"
    /\ DocumentsOf(found[r]) # <<>>

\* C4: whenever the search answers a non-empty document sequence, the
\* text sent on is every document in the index's order, then the fixed
\* delimiter, then the original question at the end.
C4_AugmentedPromptShape ==
    \A r \in Reqs :
        DocumentsFound(r) =>
            IsAugmentedWith(UserText(r, data[r]), DocumentsOf(found[r]),
                            Delimiter(r), UserText(r, req[r].body))

\* C5: in a chat request, after augmentation the message list has the
\* same length, every message other than the last user message is the
\* one received, and the last user message keeps its keys and its role.
C5_OnlyLastUserMessageRewritten ==
    \A r \in Reqs :
        (req[r].route = "chat" /\ pc[r] \in {"forward", "stream", "done"}
           /\ "messages" \in DOMAIN req[r].body) =>
            LET before == req[r].body.messages
                after == data[r].messages
                last == LastUser(before)
            IN  /\ Len(after) = Len(before)
                /\ \A i \in 1..Len(before) :
                      IF i = last
                      THEN /\ DOMAIN after[i] = DOMAIN before[i]
                           /\ after[i].role = before[i].role
                      ELSE after[i] = before[i]

\* a chat whose last user message was rewritten while an earlier user
\* message and a later assistant message came through untouched
C5_Witness ==
    \E r \in Reqs :
        /\ req[r].route = "chat" /\ pc[r] = "done"
        /\ PastForward(r)
        /\ "messages" \in DOMAIN req[r].body
        /\ LET before == req[r].body.messages
               after == ForwardedBody(r).messages
           IN  /\ Len(before) = 3
               /\ IsUser(before[1]) /\ IsUser(before[2])
               /\ ~IsUser(before[3])
               /\ after[2] # before[2]
               /\ after[1] = before[1]

\* C6: the request sent to the backend has exactly the keys of the
\* inbound request, and every key other than the prompt and the messages
\* has the inbound value.
C6_FieldsForwardedVerbatim ==
    \A r \in Reqs :
        (OnGenerationRoute(r) /\ PastForward(r)) =>
            /\ DOMAIN ForwardedBody(r) = DOMAIN req[r].body
            /\ \A k \in DOMAIN req[r].body \ {"prompt", "messages"} :
                  ForwardedBody(r)[k] = req[r].body[k]

\* a request that does not ask for a streamed response
Buffered(r) == ~StreamIsTrue(req[r].body)

\* C7: in buffered mode, an upstream answer with status >= 400 reaches
\* the caller with that status.
C7_UpstreamErrorStatusRelayed ==
    \A r \in Reqs :
        (/\ req[r].route \in {"generate", "chat", "tags"}
         /\ pc[r] = "done"
         /\ Buffered(r)
         /\ upstream[r] # None
         /\ upstream[r].kind = "resp"
         /\ upstream[r].status >= 400) =>
            resp[r].status = upstream[r].status

\* C8: a request with stream=true whose upstream body came through whole
\* was answered with the chunks of the upstream body, one unit per chunk,
\* in order.
C8_StreamedChunksRelayed ==
    \A r \in Reqs :
        (/\ OnGenerationRoute(r)
         /\ StreamIsTrue(req[r].body)
         /\ pc[r] = "done"
         /\ upstream[r] # None
         /\ upstream[r].kind = "resp"
         /\ resp[r].kind # "stream_aborted") =>
            Emitted(r) = upstream[r].body

\* C9: health answers 200 "ok" exactly when the query to the backend
\* succeeded, and 500 "error" otherwise.
C9_HealthReflectsBackend ==
    \A r \in Reqs :
        (req[r].route = "health" /\ pc[r] = "done") =>
            IF upstream[r].kind = "resp" /\ upstream[r].status = 200
            THEN resp[r] = HealthOk
            ELSE resp[r] = HealthError

\* C10: every request answered on a generation or chat route was sent to
\* the backend.
C10_AlwaysForwarded ==
    \A r \in Reqs :
        (OnGenerationRoute(r) /\ pc[r] = "done") => Forwarded(r) # <<>>

\* the upstream call of r timed out or found the backend unreachable
UpstreamRaised(r) == upstream[r] # None /\ upstream[r].kind = "raise"

\* C11: once the upstream generation call has raised (timeout, backend
\* unreachable), the request is answered, with a status >= 400.
C11_UpstreamFailureIsError ==
    \A r \in Reqs :
        (req[r].route \in {"generate", "chat"} /\ UpstreamRaised(r)) =>
            /\ pc[r] = "done"
            /\ resp[r] # None
            /\ resp[r].status >= 400

\* an augmented generate request of the injector whose upstream call
\* raised
C11_Witness ==
    \E r \in Reqs :
        /\ req[r].route = "generate" /\ req[r].impl = "injector"
        /\ UpstreamRaised(r)
        /\ data[r] # req[r].body
        /\ resp[r].status = 500

\* how many calls request r has sent to service svc
CallCount(r, svc) == Len(SelectSeq(calls[r], LAMBDA c : c.svc = svc))

\* C12: a request answered on a generation or chat route has sent at most
\* one embedding call, at most one search call and exactly one call to
\* the generation backend.
C12_NoRetries ==
    \A r \in Reqs :
        (req[r].route \in {"generate", "chat"} /\ pc[r] = "done") =>
            /\ CallCount(r, "embed") <= 1
            /\ CallCount(r, "search") <= 1
            /\ CallCount(r, "backend") = 1

\* the request lacks the field its route requires
MissingRequiredField(r) ==
    \/ req[r].route = "generate" /\ "prompt" \notin DOMAIN req[r].body
    \/ req[r].route = "chat" /\ "messages" \notin DOMAIN req[r].body

\* C13: a generate request without prompt, or a chat request without
\* messages, is answered with a 4xx status.
C13_MalformedRequestRejected ==
    \A r \in Reqs :
        (MissingRequiredField(r) /\ pc[r] = "done") =>
            resp[r].status \in 400..499

\* C14: a request to a passthrough path reaches the backend with the
\* same method, the same path and the same body, and no embedding or
\* search call is sent for it.
C14_TransparentPassthrough ==
    \A r \in Reqs :
        (req[r].route \in PassPaths /\ PastForward(r)) =>
            /\ Forwarded(r)[1].method = req[r].method
            /\ Forwarded(r)[1].path = req[r].route
            /\ ForwardedBody(r) = req[r].body
            /\ CallCount(r, "embed") = 0
            /\ CallCount(r, "search") = 0

\* request r was rewritten with the documents of its search
Rewritten(r) == DocumentsFound(r) /\ data[r] # req[r].body

\* C15: every search call carries the score threshold, and every
\* document put into a rewritten request scored at least the threshold.
C15_ThresholdEnforced ==
    \A r \in Reqs :
        /\ \A i \in 1..Len(calls[r]) :
              calls[r][i].svc = "search" =>
                  calls[r][i].body.score_threshold = SCORE_THRESHOLD
        /\ Rewritten(r) =>
              \A i \in 1..Len(found[r].hits) :
                  HasContent(found[r].hits[i]) =>
                      found[r].hits[i].score >= SCORE_THRESHOLD

\* the request has query text that the implementation's relevance gate
\* lets through (rag_api has no gate)
Retrievable(r) ==
    /\ req[r].route \in {"generate", "chat"}
    /\ ~NoQueryText(r)
    /\ req[r].impl = "injector" => IsWeatherQuery(UserText(r, req[r].body))

\* C16: every request on a generation or chat route that has query text
\* went through retrieval before it was forwarded, whatever its stream
\* field.
C16_RetrievalInBothModes ==
    \A r \in Reqs :
        (Retrievable(r) /\ PastForward(r)) => CallCount(r, "embed") = 1

\* C17: once augmentation is over, the inbound request object holds the
\* values it was received with.
C17_InboundNotMutated ==
    \A r \in Reqs :
        (OnGenerationRoute(r) /\ pc[r] \in {"forward", "stream", "done"}) =>
            RequestJson(r) = req[r].body

\* the texts request r has sent to the embedding service
EmbeddedTexts(r) ==
    LET sentCalls == SelectSeq(calls[r], LAMBDA c : c.svc = "embed")
    IN  { sentCalls[i].body.inputs[1] : i \in 1..Len(sentCalls) }

C19_SearchKeepsWellFormedHits ==
    \A r \in Reqs :
        (found[r] # None /\ found[r].kind = "ok") =>
            RetrievedDocs(req[r].impl, found[r])
              = Some(DocumentsOf(found[r]))

\* the request object request r ends augmentation with when it is handled
\* alone: a function of its own body and of the answer to its own search
AloneData(r) ==
    IF found[r] = None THEN req[r].body
    ELSE Augmented(req[r].impl, req[r].route, req[r].body, found[r])

\* the response request r gets when it is handled alone: a function of
\* the answer to its own upstream call
AloneResponse(r) ==
    IF req[r].impl = "injector"
    THEN IF upstream[r].kind = "resp" /\ StreamIsTrue(req[r].body)
         THEN Response(200, IF pending[r] = <<>> THEN "stream"
                            ELSE "stream_aborted", <<>>)
         ELSE InjGenerateResponse(upstream[r])
    ELSE IF req[r].route = "generate" THEN RagGenerateResponse(upstream[r])
    ELSE RagChatResponse(upstream[r])

\* C20: with any number of requests in flight and their steps interleaved
\* in any order, each request ends augmentation with, forwards and is
\* answered what it would be when handled alone, and a streamed answer is
\* made of the pieces of its own upstream body.
C20_RequestsDoNotInterfere ==
    \A r \in Reqs :
        /\ pc[r] \in {"forward", "stream", "done"} => data[r] = AloneData(r)
        /\ PastForward(r) => ForwardedBody(r) = AloneData(r)
        /\ (pc[r] = "done" /\ PastForward(r)) => resp[r] = AloneResponse(r)
        /\ pc[r] \in {"stream", "done"} /\ upstream[r].kind = "resp" =>
              sent[r] \o Concat([i \in 1..Len(pending[r]) |->
                                    Pieces(pending[r][i])])
                = IF StreamIsTrue(req[r].body) /\ req[r].impl = "injector"
                  THEN Concat([i \in 1..Len(upstream[r].body) |->
                                  Pieces(upstream[r].body[i])])
                  ELSE <<>>

\* one request has been rewritten and answered while another, accepted
\* with a different body, is in the middle of its streamed answer
C20_Witness ==
    \E r, q \in Reqs :
        /\ r # q
        /\ pc[r] = "done" /\ Rewritten(r) /\ resp[r].status = 200
        /\ pc[q] = "stream" /\ pending[q] # <<>>

\* C21: every inbound request eventually receives a response, whichever of
\* the embedding service, the index and the generation backend stalls for
\* good and whenever it does, because every outbound call carries a timeout
C21_EveryRequestAnswered ==
    \A r \in Reqs : (pc[r] # "idle") ~> (pc[r] = "done" /\ resp[r] # None)

\* the backend stalled in the middle of a streamed response and the
\* response ended with only a part of the body relayed
C21_Witness ==
    \E r \in Reqs :
        /\ pc[r] = "done"
        /\ down = Services
        /\ resp[r].kind = "stream_aborted"
        /\ sent[r] # <<>>
        /\ pending[r] # <<>>
        /\ \A i \in 1..Len(calls[r]) : calls[r][i].timeout > 0

\* C24: within one request the embedding call comes first, the search call
\* follows it only when the embedding call succeeded and carries the vector
\* that call returned, and the upstream call is the last one, issued once
\* the retrieval calls that were started have answered or failed.
C24_RetrievalOrder ==
    \A r \in Reqs : \A i \in 1..Len(calls[r]) :
        LET c == calls[r][i] IN
        /\ c.svc = "embed" => i = 1
        /\ c.svc = "search" =>
              /\ i = 2 /\ calls[r][1].svc = "embed"
              /\ embedded[r] # None /\ embedded[r].kind = "ok"
              /\ c.body.vector = embedded[r].vec
        /\ c.svc = "backend" =>
              /\ i = Len(calls[r])
              /\ i > 1 =>
                    /\ embedded[r] # None
                    /\ embedded[r].kind = "ok" <=> found[r] # None

\* a request that went through embed, search and the upstream call, with
\* the second of the two vectors
C24_Witness ==
    \E r \in Reqs :
        /\ pc[r] = "done"
        /\ Len(calls[r]) = 3
        /\ calls[r][2].svc = "search"
        /\ calls[r][2].body.vector = "v2"
        /\ calls[r][3].svc = "backend"

\* the pieces iter_content yields for a sequence of upstream chunks
RECURSIVE PiecesOf(_)
PiecesOf(body) ==
    IF body = <<>> THEN <<>> ELSE Pieces(Head(body)) \o PiecesOf(Tail(body))

\* sent is what the first chunks of the upstream body yield, in order
RelayedPrefix(r) ==
    \E k \in 0..Len(upstream[r].body) :
        sent[r] = PiecesOf(SubSeq(upstream[r].body, 1, k))

\* C25: a streamed response whose upstream connection dropped has ended,
\* what was relayed until then is a prefix of the upstream chunks in
\* order, and every streamed response eventually ends.
C25_DroppedStreamEnds ==
    /\ [](\A r \in Reqs :
            (resp[r] # None /\ resp[r].kind = "stream_aborted") =>
                pc[r] = "done" /\ RelayedPrefix(r))
    /\ \A r \in Reqs : (pc[r] = "stream") ~> (pc[r] = "done")

\* a stream of two different chunks dropped after the first one
C25_Witness ==
    \E r \in Reqs :
        /\ pc[r] = "done"
        /\ resp[r].kind = "stream_aborted"
        /\ Len(upstream[r].body) = 2
        /\ upstream[r].body[1] # upstream[r].body[2]
        /\ sent[r] = Pieces(upstream[r].body[1])
        /\ Len(pending[r]) = 1

\* the prompt of an injector request that reached inject_context
GatedPrompt(r) ==
    /\ req[r].impl = "injector" /\ req[r].route = "generate"
    /\ StreamIsFalse(req[r].body)
    /\ Get(req[r].body, "prompt", <<>>) # <<>>

\* the lower-cased prompt holds one of the gate's keywords
HasKeyword(prompt) == \E k \in weather_keywords : Contains(k, Lower(prompt))

\* C26: an injector request whose prompt holds none of the gate's keywords
\* issues no embedding or search call and is forwarded with its prompt
\* unchanged; the injector issues retrieval calls only for prompts that
\* hold a keyword.
C26_KeywordGate ==
    \A r \in Reqs :
        req[r].impl = "injector" =>
            /\ (GatedPrompt(r) /\ ~HasKeyword(req[r].body.prompt)) =>
                  /\ CallCount(r, "embed") = 0
                  /\ CallCount(r, "search") = 0
                  /\ PastForward(r) =>
                        ForwardedBody(r).prompt = req[r].body.prompt
            /\ (CallCount(r, "embed") > 0 \/ CallCount(r, "search") > 0) =>
                  GatedPrompt(r) /\ HasKeyword(req[r].body.prompt)

\* a prompt without keyword went through the gate and was forwarded
C26_Witness ==
    \E r \in Reqs :
        /\ GatedPrompt(r)
        /\ ~HasKeyword(req[r].body.prompt)
        /\ PastForward(r)
        /\ pc[r] = "done"
        /\ calls[r][1].svc = "backend"

\* the integer 2^16 * hi + lo lies in 0 .. 2^31 - 1
Is31Bit(id) == id.hi \in 0..(Pow2(15) - 1) /\ id.lo \in 0..(HALF - 1)

\* C22: every point id hash_id gives lies in 0 <= id < 2^31, and indexing
\* a file again reuses its point id: the collection never holds two points
\* of the same source file.
C22_HashIdIs31BitAndStable ==
    /\ \A f \in FilePaths : Is31Bit(hash_id(<<FileSource, f>>))
    /\ \A l \in LocationIds, t \in Timestamps :
          Is31Bit(hash_id(<<WeatherSource, l, t>>))
    /\ \A id \in DOMAIN points : Is31Bit(id)
    /\ \A p, q \in DOMAIN points :
          ("file_path" \in DOMAIN points[p] /\ "file_path" \in DOMAIN points[q]
           /\ points[p].file_path = points[q].file_path) => p = q

\* a file whose digest has the 32nd bit set was indexed, changed and
\* indexed again
C22_Witness ==
    \E f \in FilePaths :
        LET id == hash_id(<<FileSource, f>>) IN
        /\ md5[Join(<<FileSource, f>>, SEP)][25] >= 8
        /\ id \in DOMAIN points
        /\ "file_path" \in DOMAIN points[id]
        /\ points[id].file_path = f
        /\ points[id].content = <<"c", "2">>
        /\ Cardinality(DOMAIN points) >= 2

\* the endpoint answered 200 or 201
Answered2xx(post) ==
    post.outcome.kind = "resp" /\ post.outcome.status \in {200, 201}

\* C23: upload_document calls its endpoints in the fixed order knowledge,
\* documents, rag/documents; a call answered 200 or 201 is the last one; a
\* call that fails or raises is followed by the next endpoint; and it
\* returns true exactly when some endpoint answered 200 or 201.
C23_UploadFallbackOrder ==
    \A d \in 1..Len(DOCUMENTS) :
        LET t == up.posts[d] IN
        /\ \A i \in 1..Len(t) : t[i].url = Endpoints[i]
        /\ \A i \in 1..Len(t) : Answered2xx(t[i]) => i = Len(t)
        /\ d <= Len(up.uploaded) =>
              /\ up.uploaded[d] <=> \E i \in 1..Len(t) : Answered2xx(t[i])
              /\ ~up.uploaded[d] => Len(t) \in {0, Len(Endpoints)}

\* the first endpoint raised, the second refused and the third accepted
\* the first document
C23_Witness ==
    /\ Len(up.uploaded) >= 1
    /\ up.uploaded[1]
    /\ Len(up.posts[1]) = 3
    /\ up.posts[1][1].outcome.kind = "raise"
    /\ up.posts[1][2].outcome.status = 404
    /\ up.posts[1][3].outcome.status = 201

\* C27: a wait loop sends at most MAX_RETRIES probes and has returned once
\* it has sent that many; it returns true exactly when a probe met a ready
\* status; and every probe but the first of a loop is sent after a pause of
\* RETRY_DELAY.
C27_WaitLoopBoundedAndPaced ==
    /\ [](/\ up.attempt <= MAX_RETRIES
          /\ up.attempt = MAX_RETRIES => up.pc = "waited"
          /\ up.pc = "waited" =>
                (up.ret[1] <=> \E o \in up.seen : IsReady(o, up.loop)))
    /\ [][(up'.attempt = up.attempt + 1 /\ up.attempt > 0) =>
              up.paused = RETRY_DELAY]_vars

\* C28: run() of the uploader calls inject_documents_to_qdrant exactly
\* once on every path, and returns false exactly when the wait for the web
\* UI returned false.
C28_InjectionExactlyOnce ==
    up.prog = "uploader" =>
        /\ up.injections <= 1
        /\ up.pc = "inject" => up.injections = 1
        /\ up.pc = "end" =>
              /\ up.injections = 1
              /\ up.result \in {<<TRUE>>, <<FALSE>>}
              /\ up.result = <<FALSE>> <=> up.ready = <<FALSE>>

\* run() ended after a login that failed and two uploads that failed
C28_Witness ==
    /\ up.prog = "uploader"
    /\ up.pc = "end"
    /\ up.ready = <<TRUE>>
    /\ ~up.token
    /\ up.uploaded = <<FALSE, FALSE>>
    /\ up.injections = 1
    /\ up.result = <<TRUE>>

\* the positions of the sources whose handler was constructed, in order
Constructed(created) ==
    SelectSeq([i \in 1..Len(created) |-> i],
              LAMBDA i : created[i] = "handler")

\* C30: load_handlers goes through every source: one whose construction
\* raises or whose type has no handler is skipped, the others are
\* configured, and the handlers list is exactly the constructed handlers in
\* configuration order; load_handlers raises for an empty source list, and
\* only then.
C30_LoadIsolatesFailures ==
    /\ ix.pc = "crashed" /\ ix.error \in {"ValueError", "AttributeError"} =>
          ix.sources = <<>>
    /\ ix.sources = <<>> => ix.pc \in {"load", "crashed"}
    /\ ix.pc \notin {"load", "crashed"} =>
          /\ Len(ix.created) = Len(ix.sources)
          /\ ix.handlers = Constructed(ix.created)

\* C29: run() has run every loaded handler once, in order, before it
\* schedules any; once in the scheduler loop it stays there whatever a
\* scheduled run raises, until it is interrupted; with no handler loaded
\* it returns without running or scheduling anything, and it ends in no
\* other way.
C29_RunOnceThenSchedule ==
    /\ ix.jobs # <<>> => ix.ran = ix.handlers /\ ix.jobs = ix.handlers
    /\ ix.pc \in {"loop", "stopped"} => ix.jobs # <<>>
    /\ ix.errors > 0 => ix.pc \in {"loop", "stopped"}
    /\ ix.pc = "returned" =>
          ix.handlers = <<>> /\ ix.ran = <<>> /\ ix.jobs = <<>>
    /\ ix.pc = "crashed" => ix.error # "handler.run"

====
